---- MODULE Spec2Model ----
(***************************************************************************)
(* Model of the concurrent programs of the repository:                     *)
(*   - the port scanner's worker pool (scanPorts / scanPort),              *)
(*   - the HTTP health checker (main / monitorEndpoint / checkEndpoint /   *)
(*     updateStatus / displayStatus / printStatus),                        *)
(*   - the ICMP ping (main / ping),                                        *)
(*   - the TCP echo server (main / handleConnection).                      *)
(* Each program is a specification of its own (ScanSpec, HealthSpec,       *)
(* PingSpec, EchoSpec); the variables of the programs that are not running *)
(* keep their initial value.                                               *)
(***************************************************************************)
EXTENDS Integers, Sequences, FiniteSets, TLC

(***************************************************************************)
(* Bounds of the model.                                                    *)
(***************************************************************************)
\* largest port number of the small scan ranges
MaxPort == 3
\* largest worker count of the small scan ranges
MaxWorkers == 2
\* largest number of configured endpoints
MaxEndpoints == 2
\* largest number of checkEndpoint calls per endpoint
MaxProbes == 2
\* largest -count of the ping
MaxCount == 2
\* largest number of connections the echo server accepts
MaxConns == 2
\* largest number of lines a client of the echo server sends
MaxLines == 2

(***************************************************************************)
(* Program constants.                                                      *)
(***************************************************************************)
\* ports := make(chan int, 100)
PortsCap == 100
\* results := make(chan ScanResult, 100)
ResultsCap == 100
\* endpoints[i].Interval = 5 * time.Second (in seconds)
DefaultInterval == 5
\* endpoints[i].Timeout = 3 * time.Second (in seconds)
DefaultTimeout == 3
\* endpoints[i].ExpectedStatus = 200
DefaultExpectedStatus == 200

VARIABLES
    \* ---- port scanner (scanPorts) ----
    scanArgs,       \* arguments of scanPorts and the host's open ports
    ports,          \* buffered channel of ports: queued items
    portsClosed,    \* close(ports) has happened
    results,        \* buffered channel of ScanResult: queued items
    resultsClosed,  \* close(results) has happened
    wg,             \* counter of the workers' sync.WaitGroup
    scanPc,         \* position of the scanPorts caller
    i,              \* loop variable of the worker-spawning loop
    workerPc,       \* position of each worker goroutine
    workerPort,     \* the port a worker holds (loop variable / result.Port)
    producerPc,     \* position of the producer goroutine
    port,           \* loop variable of the producer goroutine
    closerPc,       \* position of the goroutine that waits and closes results
    openPorts,      \* the slice scanPorts collects and returns
    scanPanic,      \* a goroutine panicked (send on / close of a closed channel)
    attempts        \* history: per port, the workers that called scanPort on it

scanVars == <<scanArgs, ports, portsClosed, results, resultsClosed, wg, scanPc,
              i, workerPc, workerPort, producerPc, port, closerPc, openPorts,
              scanPanic, attempts>>

(***************************************************************************)
(* Health checker (HealthChecker)                                          *)
(***************************************************************************)
VARIABLES
    endpoints,   \* hc.endpoints: the configured targets, in configuration order
    statuses,    \* hc.statuses: Name -> latest HealthStatus, defined on the keys present
    muWriter,    \* hc.mu is write-locked
    muReaders,   \* number of read locks held on hc.mu
    ctxDone,     \* cancel() has been called on the root context
    sigPc,       \* position of the signal-handling goroutine
    hcPc,        \* position of main
    ei,          \* loop variable of the goroutine-spawning loop of main
    hcWg,        \* counter of main's sync.WaitGroup
    monPc,       \* position of each monitorEndpoint goroutine
    tickC,       \* a tick is buffered in the ticker's channel (capacity 1)
    outcome,     \* what a checkEndpoint passes to updateStatus, and (Resp) what its request produced
    dispPc,      \* position of the displayStatus goroutine
    probes,      \* history: checkEndpoint calls started, per endpoint
    done,        \* history: checkEndpoint calls returned, per endpoint
    ticks        \* history: ticks received from ticker.C, per endpoint

hcVars == <<endpoints, statuses, muWriter, muReaders, ctxDone, sigPc, hcPc, ei,
            hcWg, monPc, tickC, outcome, dispPc, probes, done, ticks>>

VARIABLES
    \* ---- ICMP ping (04-icmp-ping) ----
    pingArgs,    \* the environment of the run: euid, pid, -count, whether -host resolves
    pingPc,      \* position of main / ping
    pingI,       \* i of the ping loop
    result,      \* the PingResult counters PacketsSent and PacketsRecv
    requests,    \* history: the echo requests written to the connection
    pingLog      \* history: what each call of ping returned, and on which message

pingVars == <<pingArgs, pingPc, pingI, result, requests, pingLog>>

VARIABLES
    \* ---- TCP echo server (01-tcp-echo) ----
    echoPc,         \* position of main
    echoSigPc,      \* position of the shutdown goroutine
    echoCtxDone,    \* cancel() has been called
    listenerClosed, \* listener.Close() has been called
    echoWg,         \* counter of the WaitGroup of main
    handlerPc,      \* position of handleConnection, per accepted connection
    input           \* history: what each client sent and the handler read

echoVars == <<echoPc, echoSigPc, echoCtxDone, listenerClosed, echoWg, handlerPc,
              input>>

vars == <<scanVars, hcVars, pingVars, echoVars>>

(***************************************************************************)
(* Port scanner                                                            *)
(***************************************************************************)

\* The inputs of scanPorts: small ranges with every worker count from -1 to
\* MaxWorkers and every set of open ports, and one range longer than the
\* ports channel's capacity.
SmallScans ==
    { [startPort |-> s, endPort |-> e, workers |-> w, open |-> o] :
        s \in 1..2, e \in 0..MaxPort, w \in -1..MaxWorkers,
        o \in SUBSET (1..MaxPort) }

LargeScans ==
    { [startPort |-> 1, endPort |-> PortsCap + 1, workers |-> w, open |-> o] :
        w \in 0..1, o \in { {}, {PortsCap + 1} } }

ScanInputs ==
    { a \in SmallScans : a.open \subseteq a.startPort..a.endPort } \cup LargeScans

Range(a) == a.startPort .. a.endPort

\* the ports the history keeps a record for
Recorded(a) == 1 .. (IF a.endPort > a.startPort THEN a.endPort ELSE a.startPort)

Workers(a) == 1 .. a.workers

\* scanPort: the dial succeeds exactly on the host's open ports
scanPort(a, p) == [Port |-> p, Open |-> p \in a.open]

\* for i := 0; i < workers; i++  (faulty variant: i <= workers)
SpawnLoopCondOneMore(n, workers) == n <= workers

SpawnLoopCond(n, workers) == n < workers

\* for port := startPort; port <= endPort; port++  (faulty variant: runs the body once
\* before testing)
ProducerLoopCondOnce(p, a) == p <= a.endPort \/ p = a.startPort

ProducerLoopCond(p, a) == p <= a.endPort

\* a receive leaves the rest of the buffer (faulty variant: the item stays queued)
ChanRestKeep(ch) == ch

ChanRest(ch) == Tail(ch)

\* a send on a buffered channel goes through when the buffer has room
\* (faulty variant: the buffer never fills)
HasRoomAlways(ch, cap) == TRUE

HasRoom(ch, cap) == Len(ch) < cap

\* wg.Wait() returns when the counter is zero (faulty variant: returns at once)
WgWaitNoWait(n) == TRUE

WgWaitReturns(n) == n = 0

\* if result.Open { results <- result }  (faulty variant: every result is sent)
PublishAll(r) == TRUE

Publish(r) == r.Open

ScanInit ==
    /\ scanArgs \in ScanInputs
    /\ ports = <<>>
    /\ portsClosed = FALSE
    /\ results = <<>>
    /\ resultsClosed = FALSE
    /\ wg = 0
    /\ scanPc = "workers"
    /\ i = 0
    /\ workerPc = [w \in Workers(scanArgs) |-> "none"]
    /\ workerPort = [w \in Workers(scanArgs) |-> 0]
    /\ producerPc = "none"
    /\ port = 0
    /\ closerPc = "none"
    /\ openPorts = <<>>
    /\ scanPanic = FALSE
    /\ attempts = [p \in Recorded(scanArgs) |-> <<>>]
    \* the health checker is not running
    /\ endpoints = <<>>
    /\ statuses = <<>>
    /\ muWriter = FALSE
    /\ muReaders = 0
    /\ ctxDone = FALSE
    /\ sigPc = "none"
    /\ hcPc = "none"
    /\ ei = 0
    /\ hcWg = 0
    /\ monPc = <<>>
    /\ tickC = <<>>
    /\ outcome = <<>>
    /\ dispPc = "none"
    /\ probes = <<>>
    /\ done = <<>>
    /\ ticks = <<>>
    \* the ping is not running
    /\ pingArgs = [euid |-> 0, pid |-> 0, count |-> 0, resolves |-> FALSE]
    /\ pingPc = "none"
    /\ pingI = 0
    /\ result = [PacketsSent |-> 0, PacketsRecv |-> 0]
    /\ requests = <<>>
    /\ pingLog = <<>>
    \* the echo server is not running
    /\ echoPc = "none"
    /\ echoSigPc = "none"
    /\ echoCtxDone = FALSE
    /\ listenerClosed = FALSE
    /\ echoWg = 0
    /\ handlerPc = <<>>
    /\ input = <<>>

\* (faulty variant: the worker is started without wg.Add(1))
SpawnWorkerNoAdd ==
    /\ scanPc = "workers"
    /\ SpawnLoopCond(i, scanArgs.workers)
    /\ workerPc' = [workerPc EXCEPT ![i + 1] = "recv"]
    /\ i' = i + 1
    /\ UNCHANGED <<hcVars, pingVars, echoVars, scanArgs, ports, portsClosed, results, resultsClosed, wg,
                   scanPc, workerPort, producerPc, port, closerPc, openPorts,
                   scanPanic, attempts>>

\* wg.Add(1); go func() { ... }()
SpawnWorker ==
    /\ scanPc = "workers"
    /\ SpawnLoopCond(i, scanArgs.workers)
    /\ wg' = wg + 1
    /\ workerPc' = [workerPc EXCEPT ![i + 1] = "recv"]
    /\ i' = i + 1
    /\ UNCHANGED <<hcVars, pingVars, echoVars, scanArgs, ports, portsClosed, results, resultsClosed, scanPc,
                   workerPort, producerPc, port, closerPc, openPorts, scanPanic,
                   attempts>>

\* go func() { for port := startPort; ... }()
StartProducer ==
    /\ scanPc = "workers"
    /\ ~SpawnLoopCond(i, scanArgs.workers)
    /\ scanPc' = "closer"
    /\ producerPc' = "loop"
    /\ port' = scanArgs.startPort
    /\ UNCHANGED <<hcVars, pingVars, echoVars, scanArgs, ports, portsClosed, results, resultsClosed, wg, i,
                   workerPc, workerPort, closerPc, openPorts, scanPanic, attempts>>

\* go func() { wg.Wait(); close(results) }()
StartCloser ==
    /\ scanPc = "closer"
    /\ scanPc' = "collect"
    /\ closerPc' = "wait"
    /\ UNCHANGED <<hcVars, pingVars, echoVars, scanArgs, ports, portsClosed, results, resultsClosed, wg, i,
                   workerPc, workerPort, producerPc, port, openPorts, scanPanic,
                   attempts>>

\* ports <- port; port++   (blocks while the buffer is full)
ProducerSend ==
    /\ producerPc = "loop"
    /\ ProducerLoopCond(port, scanArgs)
    /\ IF portsClosed
         THEN /\ scanPanic' = TRUE
              /\ producerPc' = "done"
              /\ UNCHANGED <<ports, port>>
         ELSE /\ HasRoom(ports, PortsCap)
              /\ ports' = Append(ports, port)
              /\ port' = port + 1
              /\ UNCHANGED <<scanPanic, producerPc>>
    /\ UNCHANGED <<hcVars, pingVars, echoVars, scanArgs, portsClosed, results, resultsClosed, wg, scanPc, i,
                   workerPc, workerPort, closerPc, openPorts, attempts>>

\* (faulty variant: the producer ends without close(ports))
ProducerNoClose ==
    /\ producerPc = "loop"
    /\ ~ProducerLoopCond(port, scanArgs)
    /\ producerPc' = "done"
    /\ UNCHANGED <<hcVars, pingVars, echoVars, scanArgs, ports, portsClosed, results, resultsClosed,
                   wg, scanPc, i, workerPc, workerPort, port, closerPc, openPorts,
                   scanPanic, attempts>>

\* close(ports)
ProducerClose ==
    /\ producerPc = "loop"
    /\ ~ProducerLoopCond(port, scanArgs)
    /\ portsClosed' = TRUE
    /\ scanPanic' = (scanPanic \/ portsClosed)
    /\ producerPc' = "done"
    /\ UNCHANGED <<hcVars, pingVars, echoVars, scanArgs, ports, results, resultsClosed, wg, scanPc, i,
                   workerPc, workerPort, port, closerPc, openPorts, attempts>>

\* for port := range ports { result := scanPort(host, port, timeout) ...
\* the worker takes a port and enters scanPort
WorkerRecv(w) ==
    /\ workerPc[w] = "recv"
    /\ ports # <<>>
    /\ workerPort' = [workerPort EXCEPT ![w] = Head(ports)]
    /\ ports' = ChanRest(ports)
    /\ attempts' = [attempts EXCEPT ![Head(ports)] = Append(@, w)]
    /\ workerPc' = [workerPc EXCEPT ![w] = "scan"]
    /\ UNCHANGED <<hcVars, pingVars, echoVars, scanArgs, portsClosed, results, resultsClosed, wg, scanPc, i,
                   producerPc, port, closerPc, openPorts, scanPanic>>

\* scanPort returns; if result.Open the result is to be sent
WorkerScanned(w) ==
    /\ workerPc[w] = "scan"
    /\ workerPc' = [workerPc EXCEPT ![w] =
                      IF Publish(scanPort(scanArgs, workerPort[w]))
                        THEN "send" ELSE "recv"]
    /\ UNCHANGED <<hcVars, pingVars, echoVars, scanArgs, ports, portsClosed, results, resultsClosed, wg,
                   scanPc, i, workerPort, producerPc, port, closerPc, openPorts,
                   scanPanic, attempts>>

\* results <- result   (blocks while the buffer is full; panics when closed)
WorkerSend(w) ==
    /\ workerPc[w] = "send"
    /\ IF resultsClosed
         THEN /\ scanPanic' = TRUE
              /\ workerPc' = [workerPc EXCEPT ![w] = "done"]
              /\ UNCHANGED results
         ELSE /\ HasRoom(results, ResultsCap)
              /\ results' = Append(results, scanPort(scanArgs, workerPort[w]))
              /\ workerPc' = [workerPc EXCEPT ![w] = "recv"]
              /\ UNCHANGED scanPanic
    /\ UNCHANGED <<hcVars, pingVars, echoVars, scanArgs, ports, portsClosed, resultsClosed, wg, scanPc, i,
                   workerPort, producerPc, port, closerPc, openPorts, attempts>>

\* the range over ports ends (closed and drained); defer wg.Done()
WorkerExit(w) ==
    /\ workerPc[w] = "recv"
    /\ ports = <<>>
    /\ portsClosed
    /\ wg' = wg - 1
    /\ workerPc' = [workerPc EXCEPT ![w] = "done"]
    /\ UNCHANGED <<hcVars, pingVars, echoVars, scanArgs, ports, portsClosed, results, resultsClosed, scanPc,
                   i, workerPort, producerPc, port, closerPc, openPorts,
                   scanPanic, attempts>>

\* wg.Wait() returns
CloserWait ==
    /\ closerPc = "wait"
    /\ WgWaitReturns(wg)
    /\ closerPc' = "close"
    /\ UNCHANGED <<hcVars, pingVars, echoVars, scanArgs, ports, portsClosed, results, resultsClosed, wg,
                   scanPc, i, workerPc, workerPort, producerPc, port, openPorts,
                   scanPanic, attempts>>

\* close(results)
CloserClose ==
    /\ closerPc = "close"
    /\ resultsClosed' = TRUE
    /\ scanPanic' = (scanPanic \/ resultsClosed)
    /\ closerPc' = "done"
    /\ UNCHANGED <<hcVars, pingVars, echoVars, scanArgs, ports, portsClosed, results, wg, scanPc, i,
                   workerPc, workerPort, producerPc, port, openPorts, attempts>>

\* for result := range results { openPorts = append(openPorts, result) }
Collect ==
    /\ scanPc = "collect"
    /\ results # <<>>
    /\ openPorts' = Append(openPorts, Head(results))
    /\ results' = ChanRest(results)
    /\ UNCHANGED <<hcVars, pingVars, echoVars, scanArgs, ports, portsClosed, resultsClosed, wg, scanPc, i,
                   workerPc, workerPort, producerPc, port, closerPc, scanPanic,
                   attempts>>

\* (faulty variant: the collection ends as soon as results is empty)
ScanReturnEarly ==
    /\ scanPc = "collect"
    /\ results = <<>>
    /\ scanPc' = "returned"
    /\ UNCHANGED <<hcVars, pingVars, echoVars, scanArgs, ports, portsClosed, results, resultsClosed, wg, i,
                   workerPc, workerPort, producerPc, port, closerPc, openPorts,
                   scanPanic, attempts>>

\* the range over results ends; return openPorts
ScanReturn ==
    /\ scanPc = "collect"
    /\ results = <<>>
    /\ resultsClosed
    /\ scanPc' = "returned"
    /\ UNCHANGED <<hcVars, pingVars, echoVars, scanArgs, ports, portsClosed, results, resultsClosed, wg, i,
                   workerPc, workerPort, producerPc, port, closerPc, openPorts,
                   scanPanic, attempts>>

WorkerStep(w) ==
    \/ WorkerRecv(w)
    \/ WorkerScanned(w)
    \/ WorkerSend(w)
    \/ WorkerExit(w)

ProducerStep == ProducerSend \/ ProducerClose

CloserStep == CloserWait \/ CloserClose

ScanMainStep == SpawnWorker \/ StartProducer \/ StartCloser \/ Collect \/ ScanReturn

ScanNext ==
    \/ ScanMainStep
    \/ ProducerStep
    \/ CloserStep
    \/ \E w \in Workers(scanArgs) : WorkerStep(w)

ScanSpec == ScanInit /\ [][ScanNext]_vars

\* the Go scheduler runs some goroutine whenever one can take a step
ScanFairness == WF_vars(ScanNext)

FairScanSpec == ScanSpec /\ ScanFairness

(***************************************************************************)
(* Health checker                                                          *)
(*                                                                         *)
(* Durations are in seconds.  Time is not measured: a ticker may deliver   *)
(* its next tick at any moment while it runs and a probe may take any      *)
(* time, which covers every positive interval and every timeout,           *)
(* timeout > interval included.  An error string is a sequence, the empty  *)
(* string the empty sequence.                                              *)
(***************************************************************************)

\* Entries of a JSON config file, as json.Unmarshal yields them: a zero field
\* is one the file leaves out.
RawPool == <<
    [Name |-> "a", URL |-> "http://a", Interval |-> 0, Timeout |-> 0,
     ExpectedStatus |-> 0],
    [Name |-> "b", URL |-> "http://b", Interval |-> 1, Timeout |-> 2,
     ExpectedStatus |-> 201],
    [Name |-> "a", URL |-> "", Interval |-> 2, Timeout |-> 1,
     ExpectedStatus |-> 200],
    [Name |-> "c", URL |-> "://c", Interval |-> 1, Timeout |-> -1,
     ExpectedStatus |-> 200],
    [Name |-> "d", URL |-> "http://d", Interval |-> -1, Timeout |-> 1,
     ExpectedStatus |-> 200] >>

\* the config files: the entries of RawPool at up to MaxEndpoints increasing
\* positions
RawConfigs ==
    { [k \in 1..Len(ix) |-> RawPool[ix[k]]] :
        ix \in { q \in UNION { [1..n -> 1..Len(RawPool)] : n \in 0..MaxEndpoints } :
                   \A k \in 1..(Len(q) - 1) : q[k] < q[k + 1] } }

\* loadEndpoints: "Set defaults"
SetDefaults(ep) ==
    [ep EXCEPT
       !.Interval = IF @ = 0 THEN DefaultInterval ELSE @,
       !.Timeout = IF @ = 0 THEN DefaultTimeout ELSE @,
       !.ExpectedStatus = IF @ = 0 THEN DefaultExpectedStatus ELSE @]

loadEndpoints(raw) == [k \in 1..Len(raw) |-> SetDefaults(raw[k])]

Targets == 1..Len(endpoints)

\* the status codes a server may answer with
StatusCodes == {200, 201}

\* http.NewRequestWithContext fails on a URL that does not parse
NewRequestFails(url) == url = "://c"

\* time.NewTicker panics on a non-positive interval
NewTickerPanics(d) == d <= 0

\* the arguments checkEndpoint may pass to updateStatus: a request that cannot
\* be built; a transport error (always possible; certain once the context is
\* cancelled, with an expired deadline or with a URL without scheme); a
\* response, healthy iff its status is the expected one
ErrRequest == <<"request">>
ErrTransport == <<"transport">>
ErrStatus(code, expected) == <<"status", code, expected>>

\* (faulty variant: any response counts as healthy)
RespondAlwaysHealthy(ep, code) ==
    [Healthy |-> TRUE, Latency |-> 1, Error |-> <<>>]

\* healthy := resp.StatusCode == ep.ExpectedStatus, errMsg when it differs
Respond(ep, code) ==
    [Healthy |-> code = ep.ExpectedStatus,
     Latency |-> 1,
     Error |-> IF code = ep.ExpectedStatus THEN <<>>
               ELSE ErrStatus(code, ep.ExpectedStatus)]

\* what building and sending the request can produce: <<"reqerr">> when
\* http.NewRequestWithContext fails, else <<"err">> when client.Do fails
\* (always possible; certain once the context is cancelled, with an expired
\* deadline or with a URL without scheme) or <<"resp", code>>
DoResults(ep, cancelled) ==
    IF NewRequestFails(ep.URL)
      THEN { <<"reqerr">> }
      ELSE { <<"err">> } \cup
           ( IF cancelled \/ ep.Timeout <= 0 \/ ep.URL = ""
               THEN {}
               ELSE { <<"resp", c>> : c \in StatusCodes } )

\* checkEndpoint: the healthy, latency and errMsg it passes to updateStatus
\* when the request produced r
checkEndpoint(ep, r) ==
    IF r[1] = "reqerr"
      THEN [Healthy |-> FALSE, Latency |-> 0, Error |-> ErrRequest]
    ELSE IF r[1] = "err"
      THEN [Healthy |-> FALSE, Latency |-> 1, Error |-> ErrTransport]
    ELSE Respond(ep, r[2])

Outcomes(ep, cancelled) ==
    { checkEndpoint(ep, r) : r \in DoResults(ep, cancelled) }

\* hc.statuses[ep.Name] = &HealthStatus{...}
Put(m, name, st) ==
    [n \in (DOMAIN m) \cup {name} |-> IF n = name THEN st ELSE m[n]]

\* printStatus, body of the loop: the line printed for one endpoint, as the
\* arguments of its Printf.  The icon is "pending" for the hourglass, "ok"
\* for the check mark and "fail" for the cross.
PrintLine(ep, m) ==
    IF ep.Name \notin DOMAIN m
      THEN <<"pending", ep.Name, "checking...">>
      ELSE LET status == m[ep.Name]
               icon == IF ~status.Healthy THEN "fail" ELSE "ok"
           IN  IF status.Error # <<>>
                 THEN <<icon, ep.Name, status.Latency, status.Error>>
                 ELSE <<icon, ep.Name, status.Latency>>

\* (faulty variant: an endpoint without status prints nothing)
RECURSIVE printStatusSkipPending(_, _)
printStatusSkipPending(eps, m) ==
    IF eps = <<>> THEN <<>>
    ELSE (IF Head(eps).Name \notin DOMAIN m THEN <<>>
          ELSE <<PrintLine(Head(eps), m)>>)
         \o printStatusSkipPending(Tail(eps), m)

\* printStatus: for _, ep := range hc.endpoints, one line each
RECURSIVE printStatus(_, _)
printStatus(eps, m) ==
    IF eps = <<>> THEN <<>>
    ELSE <<PrintLine(Head(eps), m)>> \o printStatus(Tail(eps), m)

\* hc.mu.Lock() is granted when hc.mu has neither a writer nor a reader
\* (faulty variant: readers do not keep a writer out)
LockIgnoresReaders(w, r) == ~w

Lock(w, r) == ~w /\ r = 0

\* hc.mu.RLock() is granted when hc.mu has no writer
RLock(w) == ~w

\* wg.Wait() of main returns when the counter is zero (faulty variant: returns at once)
HcWaitNoWait(n) == TRUE

HcWaitReturns(n) == n = 0

\* the process runs: main has not returned and no goroutine has panicked
Alive == hcPc \in {"spawn", "wait", "joined"}

HcInit ==
    /\ endpoints \in { loadEndpoints(raw) : raw \in RawConfigs }
    /\ statuses = <<>>
    /\ muWriter = FALSE
    /\ muReaders = 0
    /\ ctxDone = FALSE
    /\ sigPc = "waiting"
    /\ hcPc = "spawn"
    /\ ei = 0
    /\ hcWg = 0
    /\ monPc = [e \in Targets |-> "none"]
    /\ tickC = [e \in Targets |-> FALSE]
    /\ outcome = [e \in Targets |-> <<>>]
    /\ dispPc = "none"
    /\ probes = [e \in Targets |-> 0]
    /\ done = [e \in Targets |-> 0]
    /\ ticks = [e \in Targets |-> 0]
    \* the port scanner is not running
    /\ scanArgs = [startPort |-> 1, endPort |-> 0, workers |-> 0, open |-> {}]
    /\ ports = <<>>
    /\ portsClosed = FALSE
    /\ results = <<>>
    /\ resultsClosed = FALSE
    /\ wg = 0
    /\ scanPc = "none"
    /\ i = 0
    /\ workerPc = <<>>
    /\ workerPort = <<>>
    /\ producerPc = "none"
    /\ port = 0
    /\ closerPc = "none"
    /\ openPorts = <<>>
    /\ scanPanic = FALSE
    /\ attempts = <<>>
    \* the ping is not running
    /\ pingArgs = [euid |-> 0, pid |-> 0, count |-> 0, resolves |-> FALSE]
    /\ pingPc = "none"
    /\ pingI = 0
    /\ result = [PacketsSent |-> 0, PacketsRecv |-> 0]
    /\ requests = <<>>
    /\ pingLog = <<>>
    \* the echo server is not running
    /\ echoPc = "none"
    /\ echoSigPc = "none"
    /\ echoCtxDone = FALSE
    /\ listenerClosed = FALSE
    /\ echoWg = 0
    /\ handlerPc = <<>>
    /\ input = <<>>

\* <-sigChan; cancel()
SignalCancel ==
    /\ Alive
    /\ sigPc = "waiting"
    /\ ctxDone' = TRUE
    /\ sigPc' = "done"
    /\ UNCHANGED <<scanVars, pingVars, echoVars, endpoints, statuses, muWriter, muReaders, hcPc, ei,
                   hcWg, monPc, tickC, outcome, dispPc, probes, done, ticks>>

\* (faulty variant: the goroutine is started without wg.Add(1))
HcSpawnNoAdd ==
    /\ hcPc = "spawn"
    /\ ei < Len(endpoints)
    /\ monPc' = [monPc EXCEPT ![ei + 1] = "start"]
    /\ ei' = ei + 1
    /\ UNCHANGED <<scanVars, pingVars, echoVars, endpoints, statuses, muWriter, muReaders, ctxDone,
                   sigPc, hcPc, hcWg, tickC, outcome, dispPc, probes, done, ticks>>

\* for i := range endpoints { wg.Add(1); go func(ep *Endpoint) {...}(&endpoints[i]) }
HcSpawn ==
    /\ hcPc = "spawn"
    /\ ei < Len(endpoints)
    /\ hcWg' = hcWg + 1
    /\ monPc' = [monPc EXCEPT ![ei + 1] = "start"]
    /\ ei' = ei + 1
    /\ UNCHANGED <<scanVars, pingVars, echoVars, endpoints, statuses, muWriter, muReaders, ctxDone,
                   sigPc, hcPc, tickC, outcome, dispPc, probes, done, ticks>>

\* go hc.displayStatus(ctx); main goes on to wg.Wait()
HcStartDisplay ==
    /\ hcPc = "spawn"
    /\ ei >= Len(endpoints)
    /\ dispPc' = "select"
    /\ hcPc' = "wait"
    /\ UNCHANGED <<scanVars, pingVars, echoVars, endpoints, statuses, muWriter, muReaders, ctxDone,
                   sigPc, ei, hcWg, monPc, tickC, outcome, probes, done, ticks>>

\* wg.Wait() returns; "Health checker stopped"
HcJoin ==
    /\ hcPc = "wait"
    /\ HcWaitReturns(hcWg)
    /\ hcPc' = "joined"
    /\ UNCHANGED <<scanVars, pingVars, echoVars, endpoints, statuses, muWriter, muReaders, ctxDone,
                   sigPc, ei, hcWg, monPc, tickC, outcome, dispPc, probes, done,
                   ticks>>

\* main returns: the deferred cancel() runs and the process exits
HcExit ==
    /\ hcPc = "joined"
    /\ ctxDone' = TRUE
    /\ hcPc' = "exited"
    /\ UNCHANGED <<scanVars, pingVars, echoVars, endpoints, statuses, muWriter, muReaders, sigPc, ei,
                   hcWg, monPc, tickC, outcome, dispPc, probes, done, ticks>>

\* (faulty variant: monitorEndpoint without its initial check)
MonitorStartNoCheck(e) ==
    /\ Alive
    /\ monPc[e] = "start"
    /\ IF NewTickerPanics(endpoints[e].Interval)
         THEN hcPc' = "crashed" /\ UNCHANGED monPc
         ELSE monPc' = [monPc EXCEPT ![e] = "select"] /\ UNCHANGED hcPc
    /\ UNCHANGED <<scanVars, pingVars, echoVars, endpoints, statuses, muWriter, muReaders, ctxDone,
                   sigPc, ei, hcWg, tickC, outcome, dispPc, probes, done, ticks>>

\* monitorEndpoint: ticker := time.NewTicker(ep.Interval), which panics on a
\* non-positive interval and ends the process; then the initial
\* hc.checkEndpoint(ctx, ep) is entered
MonitorStart(e) ==
    /\ Alive
    /\ monPc[e] = "start"
    /\ IF NewTickerPanics(endpoints[e].Interval)
         THEN /\ hcPc' = "crashed"
              /\ UNCHANGED <<monPc, probes>>
         ELSE /\ monPc' = [monPc EXCEPT ![e] = "probe"]
              /\ probes' = [probes EXCEPT ![e] = @ + 1]
              /\ UNCHANGED hcPc
    /\ UNCHANGED <<scanVars, pingVars, echoVars, endpoints, statuses, muWriter, muReaders, ctxDone,
                   sigPc, ei, hcWg, tickC, outcome, dispPc, done, ticks>>

\* the running ticker puts a tick into ticker.C (capacity 1; a tick that
\* finds the channel full is dropped)
TickerFire(e) ==
    /\ Alive
    /\ monPc[e] \in {"probe", "locked", "select"}
    /\ ~tickC[e]
    /\ probes[e] < MaxProbes
    /\ tickC' = [tickC EXCEPT ![e] = TRUE]
    /\ UNCHANGED <<scanVars, pingVars, echoVars, endpoints, statuses, muWriter, muReaders, ctxDone,
                   sigPc, hcPc, ei, hcWg, monPc, outcome, dispPc, probes, done,
                   ticks>>

\* checkEndpoint has its result (request error, client.Do error or response)
\* and updateStatus takes hc.mu.Lock()
ProbeDone(e) ==
    /\ Alive
    /\ monPc[e] = "probe"
    /\ Lock(muWriter, muReaders)
    /\ \E r \in DoResults(endpoints[e], ctxDone) :
          LET o == checkEndpoint(endpoints[e], r)
          IN  outcome' = [outcome EXCEPT ![e] =
                            [Healthy |-> o.Healthy, Latency |-> o.Latency,
                             Error |-> o.Error, Resp |-> r]]
    /\ muWriter' = TRUE
    /\ monPc' = [monPc EXCEPT ![e] = "locked"]
    /\ UNCHANGED <<scanVars, pingVars, echoVars, endpoints, statuses, muReaders, ctxDone, sigPc, hcPc,
                   ei, hcWg, tickC, dispPc, probes, done, ticks>>

\* (faulty variant: a failed check ends monitorEndpoint)
UpdateStatusStopOnFailure(e) ==
    /\ Alive
    /\ monPc[e] = "locked"
    /\ statuses' = Put(statuses, endpoints[e].Name,
                       [Endpoint |-> e,
                        Healthy |-> outcome[e].Healthy,
                        Latency |-> outcome[e].Latency,
                        LastCheck |-> probes[e],
                        Error |-> outcome[e].Error])
    /\ muWriter' = FALSE
    /\ outcome' = [outcome EXCEPT ![e] = <<>>]
    /\ done' = [done EXCEPT ![e] = @ + 1]
    /\ monPc' = [monPc EXCEPT ![e] =
                    IF outcome[e].Healthy THEN "select" ELSE "stopped"]
    /\ hcWg' = IF outcome[e].Healthy THEN hcWg ELSE hcWg - 1
    /\ UNCHANGED <<scanVars, pingVars, echoVars, endpoints, muReaders, ctxDone, sigPc, hcPc, ei,
                   tickC, dispPc, probes, ticks>>

\* updateStatus stores the HealthStatus and unlocks; checkEndpoint returns to
\* the select of monitorEndpoint.  LastCheck is the number of the probe.
UpdateStatus(e) ==
    /\ Alive
    /\ monPc[e] = "locked"
    /\ statuses' = Put(statuses, endpoints[e].Name,
                       [Endpoint |-> e,
                        Healthy |-> outcome[e].Healthy,
                        Latency |-> outcome[e].Latency,
                        LastCheck |-> probes[e],
                        Error |-> outcome[e].Error])
    /\ muWriter' = FALSE
    /\ outcome' = [outcome EXCEPT ![e] = <<>>]
    /\ done' = [done EXCEPT ![e] = @ + 1]
    /\ monPc' = [monPc EXCEPT ![e] = "select"]
    /\ UNCHANGED <<scanVars, pingVars, echoVars, endpoints, muReaders, ctxDone, sigPc, hcPc, ei, hcWg,
                   tickC, dispPc, probes, ticks>>

\* select: case <-ctx.Done(): return   (deferred ticker.Stop(), wg.Done())
MonitorCancel(e) ==
    /\ Alive
    /\ monPc[e] = "select"
    /\ ctxDone
    /\ monPc' = [monPc EXCEPT ![e] = "stopped"]
    /\ hcWg' = hcWg - 1
    /\ UNCHANGED <<scanVars, pingVars, echoVars, endpoints, statuses, muWriter, muReaders, ctxDone,
                   sigPc, hcPc, ei, tickC, outcome, dispPc, probes, done, ticks>>

\* (faulty variant: the tick starts the check without waiting for the previous one)
MonitorTickAsync(e) ==
    /\ Alive
    /\ monPc[e] \in {"probe", "select"}
    /\ tickC[e]
    /\ tickC' = [tickC EXCEPT ![e] = FALSE]
    /\ ticks' = [ticks EXCEPT ![e] = @ + 1]
    /\ probes' = [probes EXCEPT ![e] = @ + 1]
    /\ monPc' = [monPc EXCEPT ![e] = "probe"]
    /\ UNCHANGED <<scanVars, pingVars, echoVars, endpoints, statuses, muWriter, muReaders, ctxDone,
                   sigPc, hcPc, ei, hcWg, outcome, dispPc, done>>

\* select: case <-ticker.C: hc.checkEndpoint(ctx, ep) is entered.  When the
\* context is done as well, select takes either case.
MonitorTick(e) ==
    /\ Alive
    /\ monPc[e] = "select"
    /\ tickC[e]
    /\ tickC' = [tickC EXCEPT ![e] = FALSE]
    /\ ticks' = [ticks EXCEPT ![e] = @ + 1]
    /\ probes' = [probes EXCEPT ![e] = @ + 1]
    /\ monPc' = [monPc EXCEPT ![e] = "probe"]
    /\ UNCHANGED <<scanVars, pingVars, echoVars, endpoints, statuses, muWriter, muReaders, ctxDone,
                   sigPc, hcPc, ei, hcWg, outcome, dispPc, done>>

\* displayStatus: case <-ticker.C: printStatus takes hc.mu.RLock()
DisplayTick ==
    /\ Alive
    /\ dispPc = "select"
    /\ RLock(muWriter)
    /\ muReaders' = muReaders + 1
    /\ dispPc' = "printing"
    /\ UNCHANGED <<scanVars, pingVars, echoVars, endpoints, statuses, muWriter, ctxDone, sigPc, hcPc,
                   ei, hcWg, monPc, tickC, outcome, probes, done, ticks>>

\* printStatus has printed every endpoint; deferred hc.mu.RUnlock()
DisplayPrinted ==
    /\ Alive
    /\ dispPc = "printing"
    /\ muReaders' = muReaders - 1
    /\ dispPc' = "select"
    /\ UNCHANGED <<scanVars, pingVars, echoVars, endpoints, statuses, muWriter, ctxDone, sigPc, hcPc,
                   ei, hcWg, monPc, tickC, outcome, probes, done, ticks>>

\* displayStatus: case <-ctx.Done(): return
DisplayCancel ==
    /\ Alive
    /\ dispPc = "select"
    /\ ctxDone
    /\ dispPc' = "stopped"
    /\ UNCHANGED <<scanVars, pingVars, echoVars, endpoints, statuses, muWriter, muReaders, ctxDone,
                   sigPc, hcPc, ei, hcWg, monPc, tickC, outcome, probes, done,
                   ticks>>

MonitorStep(e) ==
    \/ MonitorStart(e)
    \/ ProbeDone(e)
    \/ UpdateStatus(e)
    \/ MonitorCancel(e)
    \/ MonitorTick(e)

DisplayStep == DisplayTick \/ DisplayPrinted \/ DisplayCancel

HcMainStep == HcSpawn \/ HcStartDisplay \/ HcJoin \/ HcExit

HcNext ==
    \/ HcMainStep
    \/ SignalCancel
    \/ DisplayStep
    \/ \E e \in Targets : MonitorStep(e)
    \/ \E e \in Targets : TickerFire(e)

HealthSpec == HcInit /\ [][HcNext]_vars

\* the Go scheduler runs main and the monitorEndpoint goroutines whenever they
\* can take a step; a check that is ready gets hc.mu although printStatus
\* takes the read lock again and again (a waiting writer keeps new readers
\* out), printStatus finishes, and every probe returns within its timeout
HcFairness ==
    /\ WF_vars(HcMainStep)
    /\ WF_vars(DisplayPrinted)
    /\ SF_vars(\E e \in Targets : MonitorStep(e))

FairHealthSpec == HealthSpec /\ HcFairness

(***************************************************************************)
(* ICMP ping                                                               *)
(***************************************************************************)

\* effective user ids: root and an ordinary user
Euids == {0, 1000}

\* process ids; both give the same identifier after the mask
Pids == {7, 65543}

\* ID: os.Getpid() & 0xffff
EchoID(pid) == pid % 65536

\* the ICMP messages ReadFrom may deliver: an echo reply or another type,
\* carrying this process's identifier or another one, and any sequence number
Messages ==
    [Type : {"echo reply", "destination unreachable"},
     ID : {7, 8},
     Seq : 1..MaxCount]

\* what ReadFrom and ParseMessage can produce
ReadResults ==
    { <<"read error">>, <<"parse error">> } \cup { <<"msg", m>> : m \in Messages }

\* the error ping returns after its read (<<>> is nil): the read error, the
\* parse error, or "unexpected ICMP type" when rm.Type != ipv4.ICMPTypeEchoReply
pingErr(r) ==
    IF r[1] # "msg" THEN r
    ELSE IF r[2].Type # "echo reply" THEN <<"unexpected ICMP type">>
    ELSE <<>>

\* os.Geteuid() != 0 is the test of main (faulty variant: no test)
NotRootNever(euid) == FALSE

NotRoot(euid) == euid # 0

PingInit ==
    /\ pingArgs \in [euid : Euids, pid : Pids, count : 0..MaxCount,
                     resolves : BOOLEAN]
    /\ pingPc = "start"
    /\ pingI = 0
    /\ result = [PacketsSent |-> 0, PacketsRecv |-> 0]
    /\ requests = <<>>
    /\ pingLog = <<>>
    \* the port scanner is not running
    /\ scanArgs = [startPort |-> 1, endPort |-> 0, workers |-> 0, open |-> {}]
    /\ ports = <<>>
    /\ portsClosed = FALSE
    /\ results = <<>>
    /\ resultsClosed = FALSE
    /\ wg = 0
    /\ scanPc = "none"
    /\ i = 0
    /\ workerPc = <<>>
    /\ workerPort = <<>>
    /\ producerPc = "none"
    /\ port = 0
    /\ closerPc = "none"
    /\ openPorts = <<>>
    /\ scanPanic = FALSE
    /\ attempts = <<>>
    \* the health checker is not running
    /\ endpoints = <<>>
    /\ statuses = <<>>
    /\ muWriter = FALSE
    /\ muReaders = 0
    /\ ctxDone = FALSE
    /\ sigPc = "none"
    /\ hcPc = "none"
    /\ ei = 0
    /\ hcWg = 0
    /\ monPc = <<>>
    /\ tickC = <<>>
    /\ outcome = <<>>
    /\ dispPc = "none"
    /\ probes = <<>>
    /\ done = <<>>
    /\ ticks = <<>>
    \* the echo server is not running
    /\ echoPc = "none"
    /\ echoSigPc = "none"
    /\ echoCtxDone = FALSE
    /\ listenerClosed = FALSE
    /\ echoWg = 0
    /\ handlerPc = <<>>
    /\ input = <<>>

\* if os.Geteuid() != 0 { log.Println(...); os.Exit(1) }
PingPrivilege ==
    /\ pingPc = "start"
    /\ pingPc' = IF NotRoot(pingArgs.euid) THEN "exit1" ELSE "resolve"
    /\ UNCHANGED <<scanVars, hcVars, echoVars, pingArgs, pingI, result, requests, pingLog>>

\* dst, err := net.ResolveIPAddr("ip4", *host); log.Fatalf on error
PingResolve ==
    /\ pingPc = "resolve"
    /\ pingPc' = IF pingArgs.resolves THEN "loop" ELSE "fatal"
    /\ UNCHANGED <<scanVars, hcVars, echoVars, pingArgs, pingI, result, requests, pingLog>>

\* for i := 0; i < *count; i++ { rtt, err := ping(dst, i+1, *timeout): the
\* call is made
PingCall ==
    /\ pingPc = "loop"
    /\ pingI < pingArgs.count
    /\ pingPc' = "listen"
    /\ UNCHANGED <<scanVars, hcVars, echoVars, pingArgs, pingI, result, requests, pingLog>>

\* ping returns err after receiving msg (<<>> when it received none); main
\* counts the packet, counts the reply when err is nil, and goes to the next i
PingReturns(err, msg) ==
    /\ pingLog' = Append(pingLog, [Seq |-> pingI + 1, Err |-> err, Msg |-> msg])
    /\ result' = [PacketsSent |-> result.PacketsSent + 1,
                  PacketsRecv |-> result.PacketsRecv +
                                    (IF err = <<>> THEN 1 ELSE 0)]
    /\ pingI' = pingI + 1
    /\ pingPc' = "loop"

\* conn, err := icmp.ListenPacket("ip4:icmp", "0.0.0.0")
PingListen ==
    /\ pingPc = "listen"
    /\ \/ /\ pingPc' = "write"
          /\ UNCHANGED <<pingI, result, pingLog>>
       \/ PingReturns(<<"listen error">>, <<>>)
    /\ UNCHANGED <<scanVars, hcVars, echoVars, pingArgs, requests>>

\* the echo request is built with ID os.Getpid() & 0xffff and Seq seq;
\* conn.SetDeadline; conn.WriteTo(msgBytes, dst)
PingWrite ==
    /\ pingPc = "write"
    /\ \/ /\ requests' = Append(requests, [ID |-> EchoID(pingArgs.pid),
                                           Seq |-> pingI + 1])
          /\ pingPc' = "read"
          /\ UNCHANGED <<pingI, result, pingLog>>
       \/ /\ \E err \in {<<"set deadline">>, <<"write error">>} :
                PingReturns(err, <<>>)
          /\ UNCHANGED requests
    /\ UNCHANGED <<scanVars, hcVars, echoVars, pingArgs>>

\* conn.ReadFrom(reply), icmp.ParseMessage, the test of rm.Type; return
PingRead ==
    /\ pingPc = "read"
    /\ \E r \in ReadResults :
          PingReturns(pingErr(r), IF r[1] = "msg" THEN r[2] ELSE <<>>)
    /\ UNCHANGED <<scanVars, hcVars, echoVars, pingArgs, requests>>

\* the loop ends; the statistics are printed and main returns
PingStats ==
    /\ pingPc = "loop"
    /\ pingI >= pingArgs.count
    /\ pingPc' = "done"
    /\ UNCHANGED <<scanVars, hcVars, echoVars, pingArgs, pingI, result, requests, pingLog>>

PingNext ==
    \/ PingPrivilege
    \/ PingResolve
    \/ PingCall
    \/ PingListen
    \/ PingWrite
    \/ PingRead
    \/ PingStats

PingSpec == PingInit /\ [][PingNext]_vars

(***************************************************************************)
(* TCP echo server                                                         *)
(***************************************************************************)

\* the connections the server may accept
Conns == 1..MaxConns

\* the connections accepted so far
Accepted == {c \in Conns : handlerPc[c] # "none"}

\* what reader.ReadString('\n') can return: a line, the line "quit", or an
\* error when the client has disconnected
ReadEvents == {"line", "quit", "eof"}

\* handleConnection tests ctx.Done() at the top of its loop, before the read
\* (faulty variant: also while it is blocked in the read)
ObservesInRead(pc) == pc \in {"check", "read"}

Observes(pc) == pc = "check"

\* wg.Wait() of main returns when the counter is zero
EchoWaitReturns(n) == n = 0

EchoInit ==
    /\ echoPc = "start"
    /\ echoSigPc = "none"
    /\ echoCtxDone = FALSE
    /\ listenerClosed = FALSE
    /\ echoWg = 0
    /\ handlerPc = [c \in Conns |-> "none"]
    /\ input = [c \in Conns |-> <<>>]
    \* the port scanner is not running
    /\ scanArgs = [startPort |-> 1, endPort |-> 0, workers |-> 0, open |-> {}]
    /\ ports = <<>>
    /\ portsClosed = FALSE
    /\ results = <<>>
    /\ resultsClosed = FALSE
    /\ wg = 0
    /\ scanPc = "none"
    /\ i = 0
    /\ workerPc = <<>>
    /\ workerPort = <<>>
    /\ producerPc = "none"
    /\ port = 0
    /\ closerPc = "none"
    /\ openPorts = <<>>
    /\ scanPanic = FALSE
    /\ attempts = <<>>
    \* the health checker is not running
    /\ endpoints = <<>>
    /\ statuses = <<>>
    /\ muWriter = FALSE
    /\ muReaders = 0
    /\ ctxDone = FALSE
    /\ sigPc = "none"
    /\ hcPc = "none"
    /\ ei = 0
    /\ hcWg = 0
    /\ monPc = <<>>
    /\ tickC = <<>>
    /\ outcome = <<>>
    /\ dispPc = "none"
    /\ probes = <<>>
    /\ done = <<>>
    /\ ticks = <<>>
    \* the ping is not running
    /\ pingArgs = [euid |-> 0, pid |-> 0, count |-> 0, resolves |-> FALSE]
    /\ pingPc = "none"
    /\ pingI = 0
    /\ result = [PacketsSent |-> 0, PacketsRecv |-> 0]
    /\ requests = <<>>
    /\ pingLog = <<>>

\* listener, err := net.Listen("tcp", addr), log.Fatalf on error; the
\* shutdown goroutine is started
EchoListen ==
    /\ echoPc = "start"
    /\ \/ echoPc' = "accept" /\ echoSigPc' = "waiting"
       \/ echoPc' = "fatal" /\ UNCHANGED echoSigPc
    /\ UNCHANGED <<scanVars, hcVars, pingVars, echoCtxDone, listenerClosed, echoWg,
                   handlerPc, input>>

\* <-sigChan; cancel()
EchoSignal ==
    /\ echoPc \in {"accept", "wait"}
    /\ echoSigPc = "waiting"
    /\ echoCtxDone' = TRUE
    /\ echoSigPc' = "cancelled"
    /\ UNCHANGED <<scanVars, hcVars, pingVars, echoPc, listenerClosed, echoWg,
                   handlerPc, input>>

\* listener.Close() of the shutdown goroutine
EchoCloseListener ==
    /\ echoPc \in {"accept", "wait"}
    /\ echoSigPc = "cancelled"
    /\ listenerClosed' = TRUE
    /\ echoSigPc' = "done"
    /\ UNCHANGED <<scanVars, hcVars, pingVars, echoPc, echoCtxDone, echoWg,
                   handlerPc, input>>

\* conn, err := listener.Accept() succeeds; wg.Add(1); go func(c) {...}(conn)
EchoAccept ==
    /\ echoPc = "accept"
    /\ ~listenerClosed
    /\ Cardinality(Accepted) < MaxConns
    /\ LET c == Cardinality(Accepted) + 1
       IN  handlerPc' = [handlerPc EXCEPT ![c] = "check"]
    /\ echoWg' = echoWg + 1
    /\ UNCHANGED <<scanVars, hcVars, pingVars, echoPc, echoSigPc, echoCtxDone,
                   listenerClosed, input>>

\* listener.Accept() returns an error (always once the listener is closed):
\* case <-ctx.Done() goes to wg.Wait(), default logs and continues
EchoAcceptError ==
    /\ echoPc = "accept"
    /\ echoPc' = IF echoCtxDone THEN "wait" ELSE "accept"
    /\ UNCHANGED <<scanVars, hcVars, pingVars, echoSigPc, echoCtxDone, listenerClosed,
                   echoWg, handlerPc, input>>

\* wg.Wait() returns; "Server shutdown complete"; main returns
EchoJoin ==
    /\ echoPc = "wait"
    /\ EchoWaitReturns(echoWg)
    /\ echoPc' = "complete"
    /\ UNCHANGED <<scanVars, hcVars, pingVars, echoSigPc, echoCtxDone, listenerClosed,
                   echoWg, handlerPc, input>>

\* the process runs
EchoAlive == echoPc \in {"accept", "wait"}

\* select { case <-ctx.Done(): ...Goodbye; return }   (deferred wg.Done())
HandlerCancel(c) ==
    /\ EchoAlive
    /\ handlerPc[c] \in {"check", "read"}
    /\ Observes(handlerPc[c])
    /\ echoCtxDone
    /\ handlerPc' = [handlerPc EXCEPT ![c] = "returned"]
    /\ echoWg' = echoWg - 1
    /\ UNCHANGED <<scanVars, hcVars, pingVars, echoPc, echoSigPc, echoCtxDone,
                   listenerClosed, input>>

\* select { default: }: the handler goes on to reader.ReadString('\n')
HandlerProceed(c) ==
    /\ EchoAlive
    /\ handlerPc[c] = "check"
    /\ ~echoCtxDone
    /\ handlerPc' = [handlerPc EXCEPT ![c] = "read"]
    /\ UNCHANGED <<scanVars, hcVars, pingVars, echoPc, echoSigPc, echoCtxDone,
                   listenerClosed, echoWg, input>>

\* the client sends a line or disconnects and ReadString returns: on an error
\* and on "quit" the handler returns, any other line is echoed and the loop
\* starts over
HandlerRead(c) ==
    /\ EchoAlive
    /\ handlerPc[c] = "read"
    /\ \E ev \in ReadEvents :
          /\ ev = "eof" \/ Len(input[c]) < MaxLines
          /\ input' = [input EXCEPT ![c] = Append(@, ev)]
          /\ IF ev = "line"
               THEN /\ handlerPc' = [handlerPc EXCEPT ![c] = "check"]
                    /\ UNCHANGED echoWg
               ELSE /\ handlerPc' = [handlerPc EXCEPT ![c] = "returned"]
                    /\ echoWg' = echoWg - 1
    /\ UNCHANGED <<scanVars, hcVars, pingVars, echoPc, echoSigPc, echoCtxDone,
                   listenerClosed>>

HandlerStep(c) == HandlerCancel(c) \/ HandlerProceed(c) \/ HandlerRead(c)

EchoMainStep == EchoListen \/ EchoAccept \/ EchoAcceptError \/ EchoJoin

EchoShutdownStep == EchoSignal \/ EchoCloseListener

EchoNext ==
    \/ EchoMainStep
    \/ EchoShutdownStep
    \/ \E c \in Conns : HandlerStep(c)

EchoSpec == EchoInit /\ [][EchoNext]_vars

(***************************************************************************)
(* Properties of the port scanner                                          *)
(***************************************************************************)
JobCount == Cardinality(Range(scanArgs))

Returned == scanPc = "returned"

ResultPorts == { openPorts[k].Port : k \in 1..Len(openPorts) }

WorkersExited == \A w \in Workers(scanArgs) : workerPc[w] = "done"

InFlight == { w \in Workers(scanArgs) : workerPc[w] = "scan" }

\* C1: with W >= 1 workers no port is ever passed to scanPort twice, and when
\* scanPorts has returned every port of the range has been passed to scanPort
\* exactly once and at most N results are returned.
C1_EveryPortOnce ==
    scanArgs.workers >= 1 =>
        /\ \A p \in Range(scanArgs) : Len(attempts[p]) <= 1
        /\ Returned =>
              /\ \A p \in Range(scanArgs) : Len(attempts[p]) = 1
              /\ Len(openPorts) <= JobCount

\* three ports were scanned by two workers, each of which took some port
C1_Witness ==
    /\ Returned
    /\ JobCount = 3
    /\ \E p, q \in Range(scanArgs) : attempts[p] = <<1>> /\ attempts[q] = <<2>>

\* C2: with W >= 1 workers scanPorts eventually returns under fair
\* scheduling, when it has returned every worker and the producer have
\* exited, and until then some goroutine can always take a step.
C2_Terminates ==
    /\ (scanArgs.workers >= 1) ~> Returned
    /\ [](scanArgs.workers >= 1 /\ Returned =>
             WorkersExited /\ producerPc = "done" /\ closerPc = "done")
    /\ [](scanArgs.workers >= 1 => Returned \/ ENABLED ScanNext)

\* a range longer than the ports channel has been scanned to the end
C2_Witness ==
    /\ Returned
    /\ scanArgs.workers >= 1
    /\ JobCount > PortsCap
    /\ WorkersExited

\* C3: the returned slice holds exactly the ports whose scanPort call
\* succeeded, each once and none with Open = false; with W >= 1 these are the
\* open ports of the range.
C3_ResultIsOpenPorts ==
    Returned =>
        /\ \A k \in 1..Len(openPorts) : openPorts[k].Open
        /\ \A k, l \in 1..Len(openPorts) :
               openPorts[k].Port = openPorts[l].Port => k = l
        /\ ResultPorts = { p \in Range(scanArgs) :
                             attempts[p] # <<>> /\ scanPort(scanArgs, p).Open }
        /\ scanArgs.workers >= 1 => ResultPorts = scanArgs.open \cap Range(scanArgs)

\* three ports, only the middle one open, two workers: the result is that port
C3_Witness ==
    /\ Returned
    /\ scanArgs.workers = 2
    /\ Range(scanArgs) = 1..3
    /\ scanArgs.open = {2}
    /\ ResultPorts = {2}
    /\ Len(openPorts) = 1

\* C4 as stated: scanPorts has not returned while a port of the range is
\* unattempted or an attempt is in flight.
C4_Original ==
    Returned =>
        /\ \A p \in Range(scanArgs) : attempts[p] # <<>>
        /\ InFlight = {}

\* C4 amended: with W >= 1 workers scanPorts has not returned while a port of
\* the range is unattempted or an attempt is in flight.
C4_BlockingWithWorkers ==
    (scanArgs.workers >= 1 /\ Returned) =>
        /\ \A p \in Range(scanArgs) : attempts[p] # <<>>
        /\ InFlight = {}
        /\ \A w \in Workers(scanArgs) : workerPc[w] # "send"

\* a scan of two ports or more with a worker has returned
C4_Witness ==
    /\ Returned
    /\ scanArgs.workers >= 1
    /\ JobCount >= 2
    /\ \A p \in Range(scanArgs) : attempts[p] # <<>>

\* C5: with an empty range (startPort > endPort) and any worker count,
\* scanPorts eventually returns, its result is empty and scanPort is never
\* called.
C5_EmptyRange ==
    /\ (Range(scanArgs) = {}) ~> Returned
    /\ [](Range(scanArgs) = {} =>
             /\ openPorts = <<>> /\ results = <<>> /\ ports = <<>>
             /\ InFlight = {}
             /\ \A p \in DOMAIN attempts : attempts[p] = <<>>)

\* an empty range with two workers has returned, the workers have exited
C5_Witness ==
    /\ Returned
    /\ Range(scanArgs) = {}
    /\ scanArgs.workers = 2
    /\ WorkersExited
    /\ openPorts = <<>>

(***************************************************************************)
(* Properties of the health checker                                        *)
(***************************************************************************)
Joined == hcPc \in {"joined", "exited"}

\* probes of endpoint e that have started and not yet returned
ProbesInFlight(e) == probes[e] - done[e]

\* C6: for every endpoint at most one checkEndpoint call is in flight, and a
\* call is in flight only while every earlier call for that endpoint has
\* returned with its outcome written to the store.
C6_OneProbeInFlight ==
    \A e \in Targets :
        /\ ProbesInFlight(e) \in {0, 1}
        /\ ProbesInFlight(e) = 1 <=> monPc[e] \in {"probe", "locked"}
        /\ done[e] >= 1 =>
              /\ endpoints[e].Name \in DOMAIN statuses
              /\ statuses[endpoints[e].Name].Endpoint = e =>
                    statuses[endpoints[e].Name].LastCheck = done[e]

\* a second probe is in flight for an endpoint whose timeout exceeds its
\* interval, after the first one was written
C6_Witness ==
    \E e \in Targets :
        /\ endpoints[e].Timeout > endpoints[e].Interval
        /\ probes[e] = 2
        /\ done[e] = 1
        /\ monPc[e] = "probe"
        /\ statuses[endpoints[e].Name].LastCheck = 1

\* C7: once wg.Wait() of main has returned, the statuses map never changes.
C7_QuiescentAfterJoin == [][Joined => statuses' = statuses]_vars

\* the join has returned after two endpoints wrote their outcomes
C7_Witness ==
    /\ hcPc = "joined"
    /\ Len(endpoints) = 2
    /\ Cardinality(DOMAIN statuses) = 2

\* C8: when wg.Wait() of main has returned, every monitorEndpoint goroutine
\* has left its loop.
C8_JoinAfterAllStopped ==
    Joined => \A e \in Targets : monPc[e] = "stopped"

\* cancellation came mid-run: the join has returned with every one of the
\* MaxEndpoints schedulers stopped after probing
C8_Witness ==
    /\ hcPc = "joined"
    /\ sigPc = "done"
    /\ Len(endpoints) >= 2
    /\ \A e \in Targets : monPc[e] = "stopped" /\ done[e] >= 1

\* C9 as stated: once the context is cancelled no monitorEndpoint enters
\* checkEndpoint.
C9_NoProbeAfterCancel ==
    [][ctxDone => \A e \in Targets : probes'[e] = probes[e]]_vars

\* C10: a scheduler that has started has made one probe more than it has
\* received ticks; its first step enters the initial probe, with no tick
\* received.
C10_ImmediateFirstProbe ==
    /\ [](\A e \in Targets :
            /\ monPc[e] \in {"none", "start"} => probes[e] = 0 /\ ticks[e] = 0
            /\ monPc[e] \notin {"none", "start"} => probes[e] = ticks[e] + 1)
    /\ [][\A e \in Targets :
            (monPc[e] = "start" /\ monPc'[e] # "start") =>
                (monPc'[e] = "probe" /\ probes'[e] = 1 /\ ticks'[e] = 0)]_vars

\* a scheduler has made its initial probe and one probe after a tick
C10_Witness ==
    \E e \in Targets :
        /\ monPc[e] = "select"
        /\ probes[e] = 2
        /\ ticks[e] = 1
        /\ done[e] = 2

\* C11: a scheduler stops only from its select and only when the context is
\* cancelled; a check that returns, failed or not, leaves the scheduler at
\* its select, where a buffered tick starts the next check.
C11_FailureNeverStops ==
    /\ [](\A e \in Targets : monPc[e] = "stopped" => ctxDone)
    /\ [][\A e \in Targets :
            /\ (monPc[e] # "stopped" /\ monPc'[e] = "stopped") =>
                  (ctxDone /\ monPc[e] = "select")
            /\ (monPc[e] = "locked" /\ monPc'[e] # "locked") =>
                  monPc'[e] = "select"]_vars
    /\ [](\A e \in Targets :
            (Alive /\ monPc[e] = "select" /\ tickC[e]) => ENABLED MonitorTick(e))

\* a scheduler whose first check failed is making its second check, the
\* context not cancelled
C11_Witness ==
    \E e \in Targets :
        /\ ~ctxDone
        /\ monPc[e] = "probe"
        /\ probes[e] = 2
        /\ endpoints[e].Name \in DOMAIN statuses
        /\ statuses[endpoints[e].Name].Endpoint = e
        /\ ~statuses[endpoints[e].Name].Healthy
        /\ statuses[endpoints[e].Name].LastCheck = 1

\* C12: what printStatus prints while it holds the read lock has one line per
\* configured endpoint, in the order of hc.endpoints, each naming its
\* endpoint; the line is the pending one exactly when the store has no status
\* under the endpoint's name.
C12_OneLinePerTarget ==
    dispPc = "printing" =>
        LET out == printStatus(endpoints, statuses)
        IN  /\ Len(out) = Len(endpoints)
            /\ \A k \in 1..Len(endpoints) :
                  /\ out[k][2] = endpoints[k].Name
                  /\ out[k][1] = "pending" <=>
                        endpoints[k].Name \notin DOMAIN statuses

\* printStatus runs when only the second of two endpoints has a status: the
\* first line is the pending one, the second is not
C12_Witness ==
    /\ dispPc = "printing"
    /\ Len(endpoints) = 2
    /\ DOMAIN statuses = {endpoints[2].Name}
    /\ endpoints[1].Name # endpoints[2].Name
    /\ printStatus(endpoints, statuses)[1][1] = "pending"
    /\ printStatus(endpoints, statuses)[2][1] # "pending"

\* the monitorEndpoint goroutines that are inside updateStatus
Writers == {e \in Targets : monPc[e] = "locked"}

\* the stored status under name n is one whole result of checkEndpoint for
\* the endpoint that wrote it
WholeOutcome(n) ==
    LET st == statuses[n]
    IN  \E cancelled \in BOOLEAN :
          [Healthy |-> st.Healthy, Latency |-> st.Latency, Error |-> st.Error]
             \in Outcomes(endpoints[st.Endpoint], cancelled)

\* C13: hc.mu keeps updateStatus and printStatus apart: never a writer and a
\* reader inside together, never two writers, the lock is held exactly by the
\* goroutines that are inside, and every entry printStatus can read is one
\* whole result of a single check.
C13_StoreExclusion ==
    /\ ~(muWriter /\ muReaders > 0)
    /\ ~(Writers # {} /\ dispPc = "printing")
    /\ Cardinality(Writers) <= 1
    /\ muWriter <=> Writers # {}
    /\ muReaders = IF dispPc = "printing" THEN 1 ELSE 0
    /\ dispPc = "printing" => \A n \in DOMAIN statuses : WholeOutcome(n)

\* printStatus is reading a store with an entry while a finished check waits
\* for the write lock
C13_Witness ==
    /\ dispPc = "printing"
    /\ statuses # <<>>
    /\ \E e \in Targets : monPc[e] = "probe" /\ done[e] >= 1

\* a descriptor the validation is to refuse, as loadEndpoints returns it
Invalid(ep) == ep.Interval <= 0 \/ ep.Timeout <= 0 \/ ep.URL = ""

\* a monitorEndpoint goroutine has been started for some endpoint
SomeStarted == \E e \in Targets : monPc[e] # "none"

\* C14: when the loaded list holds a descriptor with interval <= 0,
\* timeout <= 0 or an empty URL, no monitorEndpoint goroutine is started for
\* any endpoint of the list.
C14_InvalidNeverStarts ==
    (\E k \in Targets : Invalid(endpoints[k])) => ~SomeStarted

\* two entries of the loaded list have the same Name
DuplicateNames ==
    \E j, k \in Targets : j # k /\ endpoints[j].Name = endpoints[k].Name

\* C15: a loaded list with two entries of the same Name starts no goroutine,
\* and the entries of hc.statuses are written by one monitorEndpoint each:
\* two started goroutines never share a key.
C15_DuplicatesRejected ==
    /\ DuplicateNames => ~SomeStarted
    /\ \A j, k \in Targets :
          (j # k /\ monPc[j] # "none" /\ monPc[k] # "none") =>
              endpoints[j].Name # endpoints[k].Name

\* the request of the check produced a response with the expected status
ExpectedResponse(ep, r) == r[1] = "resp" /\ r[2] = ep.ExpectedStatus

\* C16: what a check hands to updateStatus is healthy exactly when its
\* request got a response with the endpoint's ExpectedStatus, and has an
\* error text exactly when it is not healthy (the text of a status mismatch
\* holds the observed and the expected code); updateStatus stores just that,
\* so every stored status has an error text exactly when it is not healthy.
C16_HealthyIffExpected ==
    /\ [](\A e \in Targets : monPc[e] = "locked" =>
            LET o == outcome[e]
                ep == endpoints[e]
            IN  /\ o.Healthy <=> ExpectedResponse(ep, o.Resp)
                /\ o.Error # <<>> <=> ~o.Healthy
                /\ (o.Resp[1] = "resp" /\ ~o.Healthy) =>
                      o.Error = <<"status", o.Resp[2], ep.ExpectedStatus>>)
    /\ [][\A e \in Targets :
            (monPc[e] = "locked" /\ monPc'[e] # "locked") =>
               LET st == statuses'[endpoints[e].Name]
               IN  /\ st.Healthy = outcome[e].Healthy
                   /\ st.Error = outcome[e].Error
                   /\ st.Latency = outcome[e].Latency]_vars
    /\ [](\A n \in DOMAIN statuses :
            statuses[n].Error # <<>> <=> ~statuses[n].Healthy)

\* a check whose response has another status than the expected one is about
\* to be stored, while the store holds a healthy status
C16_Witness ==
    /\ \E e \in Targets :
          /\ monPc[e] = "locked"
          /\ outcome[e].Resp[1] = "resp"
          /\ outcome[e].Resp[2] # endpoints[e].ExpectedStatus
          /\ outcome[e].Error = <<"status", outcome[e].Resp[2],
                                  endpoints[e].ExpectedStatus>>
    /\ \E n \in DOMAIN statuses : statuses[n].Healthy

\* the entry of hc.statuses under the Name of endpoint e is the status
\* written by the latest completed check of e
LatestOf(e) ==
    /\ endpoints[e].Name \in DOMAIN statuses
    /\ statuses[endpoints[e].Name].Endpoint = e
    /\ statuses[endpoints[e].Name].LastCheck = done[e]

\* C17: the entry of an endpoint is absent until the first check of that
\* endpoint has completed, is never removed, and once a check of the
\* endpoint has completed it is the status of the endpoint's latest
\* completed check.
C17_EntryIsLatestProbe ==
    /\ [](\A e \in Targets :
            IF done[e] = 0
              THEN endpoints[e].Name \notin DOMAIN statuses
              ELSE LatestOf(e))
    /\ [][DOMAIN statuses \subseteq DOMAIN statuses']_vars

\* C18: each line of the report is the pending one exactly when no check of
\* its endpoint has completed, and otherwise shows the result of the
\* endpoint's latest completed check: ok when it succeeded, fail when it
\* failed.
C18_ThreeStates ==
    dispPc = "printing" =>
        \A k \in Targets :
            LET line == printStatus(endpoints, statuses)[k]
            IN  /\ line[1] \in {"pending", "ok", "fail"}
                /\ line[1] = "pending" <=> done[k] = 0
                /\ line[1] # "pending" =>
                      /\ LatestOf(k)
                      /\ line[1] = "ok" <=> statuses[endpoints[k].Name].Healthy

\* C19 as stated: the results channel is closed only when every worker has
\* finished, and no result is in openPorts before the channel is closed.
C19_Original ==
    /\ resultsClosed => WorkersExited
    /\ Len(openPorts) > 0 => resultsClosed

\* C19: wg.Wait() of the closing goroutine returns only when every worker has
\* finished, the results channel is closed only after that, and the range
\* that fills openPorts ends (scanPorts returns) only when the channel is
\* closed and empty; results are taken into openPorts while workers still
\* run and the channel is open.
C19_CloseAfterWorkers ==
    /\ closerPc \in {"close", "done"} => WorkersExited
    /\ resultsClosed => (WorkersExited /\ closerPc = "done")
    /\ Returned => (resultsClosed /\ results = <<>>)

\* every worker has finished and the channel is about to be closed, with a
\* result already in openPorts and another still in the channel
C19_Witness ==
    /\ closerPc = "close"
    /\ ~resultsClosed
    /\ scanArgs.workers >= 1
    /\ Len(openPorts) > 0
    /\ results # <<>>

\* C22: no send on a closed channel and no second close ever happens
\* (scanPanic stays false): ports is closed only by the producer as its last
\* step, results only by the closing goroutine as its last step, a closed
\* channel stays closed, and a worker leaves its send only while results is
\* open.  A consumer at a closed channel can always go on: it takes a
\* buffered item while there is one and leaves its range when there is none.
\* Until scanPorts has returned some goroutine can always take a step.
C22_ClosingIsSafe ==
    /\ [](~scanPanic)
    /\ [](portsClosed => producerPc = "done")
    /\ [](resultsClosed => closerPc = "done")
    /\ [][/\ portsClosed => portsClosed'
          /\ resultsClosed => resultsClosed'
          /\ producerPc = "done" => ports' = ports \/ Len(ports') < Len(ports)
          /\ \A w \in Workers(scanArgs) :
                (workerPc[w] = "send" /\ workerPc'[w] # "send") =>
                    (~resultsClosed /\ ~resultsClosed')]_vars
    /\ [](\A w \in Workers(scanArgs) :
            (portsClosed /\ workerPc[w] = "recv") =>
                IF ports # <<>> THEN ENABLED WorkerRecv(w)
                                ELSE ENABLED WorkerExit(w))
    /\ []((resultsClosed /\ scanPc = "collect") =>
            IF results # <<>> THEN ENABLED Collect ELSE ENABLED ScanReturn)
    /\ [](scanPc \notin {"none", "returned"} => ENABLED ScanNext)

\* both channels are closed, results still holds an item for the collecting
\* range, and a worker sent it
C22_Witness ==
    /\ portsClosed
    /\ resultsClosed
    /\ results # <<>>
    /\ scanPc = "collect"
    /\ scanArgs.workers >= 2

\* the size of the pool: workers, or none when workers is not positive
PoolSize == IF scanArgs.workers > 0 THEN scanArgs.workers ELSE 0

\* C23: at every moment at most W calls of scanPort are in flight, whatever
\* the number of ports; the worker goroutines are created by the one loop of
\* scanPorts, at most W of them, each with one wg.Add(1), and a worker has at
\* most one port in hand.
C23_AtMostWInFlight ==
    /\ Cardinality(InFlight) <= PoolSize
    /\ i <= PoolSize
    /\ wg <= PoolSize
    /\ scanPc # "workers" => i = PoolSize
    /\ \A p \in Range(scanArgs) :
          Cardinality({w \in InFlight : workerPort[w] = p}) <= 1

\* both workers of a pool of two are in scanPort while a third port waits in
\* the channel
C23_Witness ==
    /\ scanArgs.workers = 2
    /\ Cardinality(InFlight) = 2
    /\ JobCount >= 3
    /\ ports # <<>>

\* scanPorts was called without workers for a range with ports in it
NoPool == scanArgs.workers <= 0 /\ Range(scanArgs) # {}

\* the range has more ports than the ports channel holds
LongRange == JobCount > PortsCap

\* C25: with workers <= 0 and a non-empty range scanPorts eventually returns
\* with an empty result: no worker is registered (wg stays 0), no port is
\* ever passed to scanPort and nothing is sent on results.  When the range has
\* more ports than the ports channel holds, the producer fills the channel
\* and from then on cannot move: it never ends and never closes ports,
\* before and after scanPorts has returned.
C25_NoPoolReturnsEmpty ==
    /\ NoPool ~> Returned
    /\ [](NoPool =>
            /\ wg = 0
            /\ openPorts = <<>> /\ results = <<>>
            /\ \A p \in DOMAIN attempts : attempts[p] = <<>>)
    /\ (NoPool /\ LongRange) ~> (Returned /\ Len(ports) = PortsCap)
    /\ []((NoPool /\ LongRange) =>
            /\ producerPc # "done" /\ ~portsClosed
            /\ Len(ports) <= PortsCap
            /\ Len(ports) = PortsCap => ~ENABLED ProducerStep)
    /\ [][(NoPool /\ LongRange /\ Len(ports) = PortsCap) => ports' = ports]_vars

\* scanPorts has returned an empty result for 101 ports and no workers,
\* while the producer sits at its send with the ports channel full
C25_Witness ==
    /\ NoPool /\ LongRange
    /\ Returned
    /\ openPorts = <<>>
    /\ producerPc = "loop"
    /\ Len(ports) = PortsCap
    /\ port = PortsCap + 1

(***************************************************************************)
(* Properties of the ICMP ping                                             *)
(***************************************************************************)

\* C20: when the effective user is not root, the first step of main ends the
\* process with exit status 1, where it stays: ping is never called, no echo
\* request is written and no packet, lost or received, is counted.
C20_NoProbeWithoutPrivilege ==
    /\ [](pingArgs.euid # 0 =>
            /\ pingPc \in {"start", "exit1"}
            /\ pingLog = <<>>
            /\ requests = <<>>
            /\ pingI = 0
            /\ result = [PacketsSent |-> 0, PacketsRecv |-> 0])
    /\ [][(pingArgs.euid # 0 /\ pingPc # pingPc') =>
             (pingPc = "start" /\ pingPc' = "exit1")]_vars

\* an ordinary user asked for pings of a host that resolves, and the process
\* has exited
C20_Witness ==
    /\ pingArgs.euid # 0
    /\ pingArgs.count >= 1
    /\ pingArgs.resolves
    /\ pingPc = "exit1"

\* C21: every call of ping that returned without error did so on an echo
\* reply that carries the identifier and the sequence number of the request
\* that call wrote.
C21_SuccessOnlyOnMatchingReply ==
    \A k \in 1..Len(pingLog) :
        pingLog[k].Err = <<>> =>
            /\ pingLog[k].Msg # <<>>
            /\ pingLog[k].Msg.Type = "echo reply"
            /\ pingLog[k].Msg.ID = EchoID(pingArgs.pid)
            /\ pingLog[k].Msg.Seq = pingLog[k].Seq

\* every monitorEndpoint goroutine has returned
AllStopped == \A e \in Targets : monPc[e] = "stopped"

\* C24: once the context is cancelled every monitorEndpoint eventually
\* returns and wg.Wait() of main eventually returns; a goroutine that has
\* returned stays so and starts no further check.
C24_ShutdownCompletes ==
    /\ ctxDone ~> AllStopped
    /\ ctxDone ~> (hcPc \in {"joined", "exited"})
    /\ [][\A e \in Targets :
            monPc[e] = "stopped" =>
               (monPc'[e] = "stopped" /\ probes'[e] = probes[e])]_vars

(***************************************************************************)
(* Properties of the TCP echo server                                       *)
(***************************************************************************)

\* the handlers blocked in reader.ReadString
Reading == {c \in Conns : handlerPc[c] = "read"}

====
